---- MODULE Spec2Model ----
(***************************************************************************)
(* State-machine model of wallpaper_ui.pyw: the NumParameter and           *)
(* ColorParameter widgets and the MainWindow preview pipeline              *)
(* (generateImage / updateImage / resizeEvent / showOutputDialog).         *)
(*                                                                         *)
(* The window of the model holds four of the sixteen parameters of the     *)
(* real window, one of each kind of widget code:                           *)
(*   width_field             NumParameter of type int                      *)
(*   scale_field             NumParameter of type float                    *)
(*   background_color_field  ColorParameter                                *)
(*   wire_style_combo        QComboBox                                     *)
(* every one of them connected to updateImage, as in MainWindow.__init__.  *)
(*                                                                         *)
(* Numbers.  An int parameter holds integers.  A float parameter holds     *)
(* Python floats; the model writes a float as an integer number of         *)
(* thousandths (0.29 is 290), the QDoubleSpinBox value as the thousandths  *)
(* of its two-decimal rounding, and the QSlider value as the C++ int it    *)
(* is (hundredths).                                                        *)
(***************************************************************************)
EXTENDS Integers, Sequences, FiniteSets, TLC

VARIABLES
    pc,          \* "constructing" | "running" | "crashed"  (MainWindow.__init__ / event loop)
    num,         \* [width_field |-> NumParameter, scale_field |-> NumParameter]
    color,       \* background_color_field : ColorParameter
    svg_data,    \* MainWindow.__svg_data : None or the markup text
    image,       \* MainWindow.__image    : None or the QImage
    view,        \* ImageView: [size |-> label size, pixmap |-> None or the scaled pixmap]
    call,        \* the handler that ran last, with its arguments
    emitted,     \* valueChanged notifications delivered to listeners by that handler
    genCalled,   \* calls of wallpaper.generate made by that handler
    written,     \* the file that handler wrote: None or [path, content]
    raised,      \* whether an exception left that handler
    wire_style,  \* wire_style_combo: the data of its current item
    consumed,    \* what the event filter returned to Qt for the event that handler
                 \* was given (TRUE: the event does not reach the widget)
    last_run,    \* history: how the latest generation run ended:
                 \* "none" (no run yet) | "ok" | "malformed" | "raise"
    declared     \* history: per parameter, the last value passed to setValue with
                 \* use_as_default=True, or the constructor's value

vars == <<pc, num, color, svg_data, image, view, call, emitted, genCalled,
          written, raised, wire_style, consumed, last_run, declared>>

None == [none |-> TRUE]

(***************************************************************************)
(* Bounds of the model.  The ranges of the real window, (1, 4096) and      *)
(* (0.1, 10), are scaled down; the float range (0.28, 0.30) is placed so    *)
(* that, like the ranges of the real window, its ends and its initial      *)
(* value have an exact product with 100, and so that it holds 0.29, a      *)
(* two-decimal value whose product with 100 is below 29 in IEEE-754        *)
(* arithmetic.                                                             *)
(***************************************************************************)
MaxWidth == 2

MaxScaleHundredths == 30

MaxViewSize == 2

WidthMin == 1
ScaleMinHundredths == MaxScaleHundredths - 2

NumFields == {"width_field", "scale_field"}

(***************************************************************************)
(* Qt and Python value conversions                                         *)
(***************************************************************************)

\* qBound(min, value, max) as used by QAbstractSlider::setValue and
\* QAbstractSpinBoxPrivate::bound.
Bound(lo, hi, v) == IF v < lo THEN lo ELSE IF v > hi THEN hi ELSE v

\* QDoubleSpinBoxPrivate::round with the default decimals = 2, on thousandths.
\* Exact ties (x.xx5) depend on the binary representation of the float and are
\* not among the inputs of the model.
Round2(m) == ((m + 5) \div 10) * 10

\* The two-decimal values h/100 (h in hundredths) of the model's range for
\* which the IEEE-754 double product (h/100.0) * 100 is below h:
\* 0.29 * 100 = 28.999999999999996, 0.57 * 100 = 56.99999999999999, ...
ProductBelow == {29, 57, 58, 113, 114, 115, 116}

\* `value * 100` for a Python float, handed to a C++ int parameter
\* (QSlider.setValue, QSlider.setRange): the binding converts the float by
\* truncation toward zero.  m is in thousandths, the result in hundredths.
Times100AsInt(m) ==
    LET a == IF m < 0 THEN -m ELSE m
        q == a \div 10
        t == IF a % 10 = 0 /\ q \in ProductBelow THEN q - 1 ELSE q
    IN  IF m < 0 THEN -t ELSE t

\* `value / 100.0` for a slider position s, in thousandths.
Div100(s) == s * 10

\* Mouse events as the event filters read them: event.type(),
\* event.button(), event.modifiers().
MouseEvent(type, button, modifiers) ==
    [type |-> type, button |-> button, modifiers |-> modifiers]

\* The reset gesture, and the events that differ from it in one part.
ResetGesture == MouseEvent("MouseButtonRelease", "MiddleButton", "ControlModifier")

MouseEvents ==
    {ResetGesture,
     MouseEvent("MouseButtonPress", "MiddleButton", "ControlModifier"),
     MouseEvent("MouseButtonRelease", "LeftButton", "ControlModifier"),
     MouseEvent("MouseButtonRelease", "MiddleButton", "NoModifier")}

\* What an event filter did with an event: whether it called
\* resetToDefault(), and the value it returned to Qt.
Filtered(reset, accepted) == [reset |-> reset, consumed |-> accepted]

\* QObject.eventFilter, and an object that has no filter installed: the
\* event goes on to the widget.
PassedOn == Filtered(FALSE, FALSE)

(***************************************************************************)
(* NumParameter                                                            *)
(* record: type, field (spin box value), fmin, fmax (spin box range),      *)
(*         slider (slider value), smin, smax (slider range), dvalue        *)
(***************************************************************************)

\* A signal of a child widget is delivered to its slot when the child's
\* signals are not blocked and the child's value changed.
Delivered(blocked, old, new) == IF ~blocked /\ old # new THEN 1 ELSE 0

\* QSpinBox.setValue / QDoubleSpinBox.setValue: round (float) and bound.
Field_setValue(p, value) ==
    Bound(p.fmin, p.fmax, IF p.type = "float" THEN Round2(value) ELSE value)

\* The argument the code hands to QSlider for a logical value.
ToSlider(p, value) == IF p.type = "int" THEN value ELSE Times100AsInt(value)

\* The argument the code hands to the spin box for a slider position.
FromSlider(p, value) == IF p.type = "float" THEN Div100(value) ELSE value

Num_value(p) == p.field

Num_defaultValue(p) == p.dvalue

\* Variant of setDefaultValue that also shows the new default in the spin box.
Num_setDefaultValue_andShow(p, value) ==
    [p EXCEPT !.dvalue = value, !.field = Field_setValue(p, value)]

Num_setDefaultValue(p, value) == [p EXCEPT !.dvalue = value]

\* Variant of setValue that writes the slider first and fills the spin box from
\* the slider's position.
Num_setValue_viaSlider(p, value, use_as_default) ==
    LET p1 == IF use_as_default THEN Num_setDefaultValue(p, value) ELSE p
        s  == Bound(p.smin, p.smax, ToSlider(p, value))
    IN  [p1 EXCEPT !.field  = Field_setValue(p, FromSlider(p, s)),
                   !.slider = s]

Num_setValue(p, value, use_as_default) ==
    LET p1 == IF use_as_default THEN Num_setDefaultValue(p, value) ELSE p
    IN  [p1 EXCEPT !.field  = Field_setValue(p, value),
                   !.slider = Bound(p.smin, p.smax, ToSlider(p, value))]

\* Notifications that reach the listeners of NumParameter.valueChanged during
\* setValue: field and slider are written with their signals blocked, then
\* valueChanged is emitted once.
Num_setValue_emits(p, value) ==
    Delivered(TRUE, p.field, Field_setValue(p, value))
    + Delivered(TRUE, p.slider, Bound(p.smin, p.smax, ToSlider(p, value)))
    + 1

Num_resetToDefault(p) == Num_setValue(p, p.dvalue, FALSE)

\* Slot of field.valueChanged: the slider is written with its signals blocked.
Num_updateValueFromField(p, value) ==
    [p EXCEPT !.slider = Bound(p.smin, p.smax, ToSlider(p, value))]

Num_updateValueFromField_emits(p, value) ==
    Delivered(TRUE, p.slider, Bound(p.smin, p.smax, ToSlider(p, value))) + 1

\* Slot of slider.valueChanged: the field is written with its signals blocked.
Num_updateValueFromSlider(p, value) ==
    [p EXCEPT !.field = Field_setValue(p, FromSlider(p, value))]

Num_updateValueFromSlider_emits(p, value) ==
    Delivered(TRUE, p.field, Field_setValue(p, FromSlider(p, value))) + 1

\* setRange.  The NumParameter's own signals are blocked (so nothing reaches
\* its listeners), the children's are not: when a child re-bounds its value,
\* its valueChanged runs the slot above if `connected` (after __init__).
Num_setRange(p, min_value, max_value, connected) ==
    LET fmin == IF p.type = "float" THEN Round2(min_value) ELSE min_value
        fmx  == IF p.type = "float" THEN Round2(max_value) ELSE max_value
        fmax == IF fmin < fmx THEN fmx ELSE fmin
        f1   == Bound(fmin, fmax, p.field)
        p1   == [p EXCEPT !.fmin = fmin, !.fmax = fmax, !.field = f1]
        p2   == IF connected /\ f1 # p.field
                    THEN Num_updateValueFromField(p1, f1) ELSE p1
        smin == ToSlider(p, min_value)
        smx  == ToSlider(p, max_value)
        smax == IF smin < smx THEN smx ELSE smin
        s1   == Bound(smin, smax, p2.slider)
        p3   == [p2 EXCEPT !.smin = smin, !.smax = smax, !.slider = s1]
    IN  IF connected /\ s1 # p2.slider
            THEN Num_updateValueFromSlider(p3, s1) ELSE p3

Num_setRange_emits(p, min_value, max_value) == 0

\* The child widgets of a NumParameter, and those of them __init__ installs
\* the NumParameter on as event filter.
Num_widgets == {"field", "slider"}

Num_installEventFilter == {"field", "slider"}

\* NumParameter.eventFilter(obj, event), every event of the model being a
\* QMouseEvent.
Num_eventFilter(obj, event) ==
    IF obj \in {"field", "slider"} /\ event.button = "MiddleButton"
        THEN Filtered(/\ event.type = "MouseButtonRelease"
                      /\ event.modifiers = "ControlModifier",
                      TRUE)
        ELSE PassedOn

\* NumParameter.__init__(value, value_range): fresh QSpinBox / QDoubleSpinBox
\* and QSlider (value 0, range 0..99), setRange, setValue, _dvalue = value.
NumParameter(type, value, value_range) ==
    LET fresh == [type |-> type,
                  field |-> 0, fmin |-> 0,
                  fmax |-> IF type = "float" THEN 99990 ELSE 99,
                  slider |-> 0, smin |-> 0, smax |-> 99,
                  dvalue |-> 0]
        ranged == Num_setRange(fresh, value_range[1], value_range[2], FALSE)
    IN  [Num_setValue(ranged, value, FALSE) EXCEPT !.dvalue = value]

(***************************************************************************)
(* ColorParameter                                                          *)
(* record: text (QLineEdit text), button (colour of the swatch),           *)
(*         dvalue (a Python value: a str or a QColor)                      *)
(***************************************************************************)

\* Python values handed to the colour API: a str, or a QColor object.
Str(s) == [py |-> "str", v |-> s]
QColorObj(rgb) == [py |-> "QColor", v |-> rgb]

Invalid == "<invalid>"

\* The texts of the model, with what QColor(str) parses them to
\* (QColor::setNamedColor): #rrggbb, #rgb and SVG colour names are valid.
ColorTexts == {"#ffffff", "red", "#ff0000", "not-a-color"}

ParsedTexts == ColorTexts \cup {"#fff"}

NamedColor ==
    [s \in ParsedTexts |->
        CASE s = "#ffffff" -> "#ffffff"
          [] s = "#fff"    -> "#ffffff"
          [] s = "red"     -> "#ff0000"
          [] s = "#ff0000" -> "#ff0000"
          [] OTHER         -> Invalid]

\* QColor(value).name(), or Invalid when QColor(value).isValid() is false.
QColor(value) == IF value.py = "QColor" THEN value.v ELSE NamedColor[value.v]

Color_value(c) == c.text

Color_defaultValue(c) == c.dvalue

Color_setDefaultValue(c, value) ==
    IF QColor(value) = Invalid THEN c
    ELSE [c EXCEPT !.dvalue = Str(QColor(value))]

\* Variant of setValue that stores the default before it looks at the colour's
\* validity, as NumParameter.setValue does.
Color_setValue_defaultFirst(c, value, use_as_default) ==
    LET c0 == IF use_as_default THEN [c EXCEPT !.dvalue = value] ELSE c
    IN  IF QColor(value) = Invalid THEN c0
        ELSE [c0 EXCEPT !.text = QColor(value), !.button = QColor(value)]

Color_setValue(c, value, use_as_default) ==
    IF QColor(value) = Invalid THEN c
    ELSE LET name == QColor(value)
             c1 == IF use_as_default THEN Color_setDefaultValue(c, Str(name)) ELSE c
         IN  [c1 EXCEPT !.text = name, !.button = name]

\* Notifications that reach the listeners of ColorParameter.valueChanged during
\* setValue: field.setText runs with the field's signals not blocked, and
\* field.textChanged is connected to valueChanged.emit when `connected`
\* (after __init__); then valueChanged is emitted.
Color_setValue_emits(c, value, connected) ==
    IF QColor(value) = Invalid THEN 0
    ELSE (IF connected THEN Delivered(FALSE, c.text, QColor(value)) ELSE 0) + 1

Color_resetToDefault(c) == Color_setValue(c, c.dvalue, FALSE)

\* The child widgets of a ColorParameter that take mouse events, and those of
\* them __init__ installs the ColorParameter on as event filter: the line
\* edit, twice.
Color_widgets == {"field", "color_button"}

Color_installEventFilter == {"field"} \cup {"field"}

\* ColorParameter.eventFilter(obj, event)
Color_eventFilter(obj, event) ==
    IF /\ obj = "field"
       /\ event.type = "MouseButtonRelease"
       /\ event.button = "MiddleButton"
       /\ event.modifiers = "ControlModifier"
        THEN Filtered(TRUE, TRUE)
        ELSE PassedOn

\* ColorParameter.__init__(color): setValue(color), _dvalue = color.
ColorParameter(colorArg) ==
    LET fresh == [text |-> "", button |-> "", dvalue |-> None]
    IN  [Color_setValue(fresh, colorArg, FALSE) EXCEPT !.dvalue = colorArg]

(***************************************************************************)
(* MainWindow: the preview pipeline                                        *)
(***************************************************************************)

\* The arguments generateImage reads from the parameter widgets.
Request(n, c, w) ==
    [width      |-> Num_value(n.width_field),
     scale      |-> Num_value(n.scale_field),
     background |-> Color_value(c),
     wirestyle  |-> w]

\* wallpaper.generate is an external collaborator: for a request it returns
\* markup the renderer accepts ("ok"), markup the renderer rejects
\* ("malformed"), or raises ("raise").
Outcomes == {"ok", "malformed", "raise"}

Markup(req) == [request |-> req]

\* QImage(width, height, Format_ARGB32) painted with the rendered markup
\* (the markup of the model paints its whole canvas, so nothing of the
\* unfilled QImage buffer stays visible).
Render(req) == [markup |-> Markup(req), width |-> req.width]

\* ImageView.setImage: the image scaled to the label's size.
Scaled(img, size) == [image |-> img, fit |-> size]

\* MainWindow.generateImage, as [svg_data, image, raised, result].
GenerateImage(svg, img, req, out) ==
    CASE out = "raise" ->
            [svg_data |-> svg, image |-> img, raised |-> TRUE]
      [] out = "malformed" ->
            [svg_data |-> None, image |-> img, raised |-> TRUE]
      [] OTHER ->
            [svg_data |-> Markup(req), image |-> Render(req), raised |-> FALSE]

\* MainWindow.updateImage: self.view.setImage(self.generateImage()); when
\* generateImage raises, setImage is not reached.
UpdateImage(svg, img, v, req, out) ==
    LET g == GenerateImage(svg, img, req, out)
    IN  [svg_data |-> g.svg_data, image |-> g.image, raised |-> g.raised,
         view |-> IF g.raised THEN v
                  ELSE [v EXCEPT !.pixmap = Scaled(g.image, v.size)]]

\* The generator is deterministic: called again with the request of the
\* latest run (the parameters did not change), it ends as that run did.
SameAsLatest(req, out) ==
    (last_run # "none" /\ req = Request(num, color, wire_style)) => out = last_run

\* n valueChanged notifications reach updateImage, the one listener of every
\* parameter; the parameters already hold the request req.  An exception in
\* a slot is reported by the binding and does not leave the emit.
Notify(n, req, out) ==
    LET u == UpdateImage(svg_data, image, view, req, out)
    IN  /\ n > 0 => SameAsLatest(req, out)
        /\ emitted' = n
        /\ genCalled' = n
        /\ written' = None
        /\ IF n = 0
              THEN /\ UNCHANGED <<svg_data, image, view, last_run>>
                   /\ raised' = FALSE
              ELSE /\ svg_data' = u.svg_data
                   /\ image' = u.image
                   /\ view' = u.view
                   /\ raised' = u.raised
                   /\ last_run' = out

Call(op, target, arg, use_as_default) ==
    [op |-> op, target |-> target, arg |-> arg, use_as_default |-> use_as_default]

(***************************************************************************)
(* Inputs                                                                  *)
(***************************************************************************)
WidthInputs == (WidthMin - 1) .. (MaxWidth + 1)

\* Floats in thousandths: the two-decimal values around the range, and
\* three-decimal values.
ScaleInputs ==
    {h * 10 : h \in (ScaleMinHundredths - 1) .. (MaxScaleHundredths + 1)}
    \cup {ScaleMinHundredths * 10 + 13}

NumInputs(f) == IF f = "width_field" THEN WidthInputs ELSE ScaleInputs

WidthRanges ==
    {<<WidthMin, MaxWidth>>, <<WidthMin, MaxWidth - 1>>, <<WidthMin + 1, MaxWidth>>}

ScaleRanges ==
    {<<ScaleMinHundredths * 10, MaxScaleHundredths * 10>>,
     <<ScaleMinHundredths * 10, (MaxScaleHundredths - 1) * 10>>,
     <<(ScaleMinHundredths + 1) * 10, MaxScaleHundredths * 10>>}

NumRanges(f) == IF f = "width_field" THEN WidthRanges ELSE ScaleRanges

ColorInputs ==
    {Str(s) : s \in ParsedTexts} \cup {QColorObj("#ffffff"), QColorObj("#ff0000")}

\* The item data of wire_style_combo.
WireStyles == {"bezier", "straight"}

ViewSizes == 1 .. MaxViewSize

\* File paths as <<stem, suffix>>; <<"", "">> is the empty path of a
\* cancelled dialog.
Paths == {<<"", "">>, <<"out", ".svg">>, <<"out", ".png">>, <<"out", ".jpg">>,
          <<"out", ".txt">>, <<"out", "">>}

EndsWith(path, suffix) == path[2] = suffix

(***************************************************************************)
(* Initial state: MainWindow.__init__ up to `self.__image = None`          *)
(***************************************************************************)
Init ==
    /\ pc = "constructing"
    /\ num = [width_field |-> NumParameter("int", MaxWidth - 1, <<WidthMin, MaxWidth>>),
              scale_field |-> NumParameter("float", ScaleMinHundredths * 10,
                                <<ScaleMinHundredths * 10, MaxScaleHundredths * 10>>)]
    /\ color = ColorParameter(QColorObj("#ffffff"))
    /\ svg_data = None
    /\ image = None
    /\ view = [size |-> 1, pixmap |-> None]
    /\ call = Call("__init__", "", 0, FALSE)
    /\ emitted = 0
    /\ genCalled = 0
    /\ written = None
    /\ raised = FALSE
    /\ wire_style = "bezier"
    /\ consumed = FALSE
    /\ last_run = "none"
    /\ declared = [width_field |-> MaxWidth - 1,
                   scale_field |-> ScaleMinHundredths * 10,
                   background_color_field |-> "#ffffff"]

(***************************************************************************)
(* Actions                                                                 *)
(***************************************************************************)

\* MainWindow.__init__, `self.updateImage()`: a direct call, so an exception
\* leaves the constructor and the script.
Construct(out) ==
    /\ pc = "constructing"
    /\ LET u == UpdateImage(svg_data, image, view, Request(num, color, wire_style), out)
       IN  /\ svg_data' = u.svg_data
           /\ image' = u.image
           /\ view' = u.view
           /\ raised' = u.raised
           /\ pc' = IF u.raised THEN "crashed" ELSE "running"
    /\ last_run' = out
    /\ call' = Call("updateImage", "", 0, FALSE)
    /\ emitted' = 0
    /\ genCalled' = 1
    /\ written' = None
    /\ consumed' = FALSE
    /\ UNCHANGED <<num, color, wire_style, declared>>

\* NumParameter.setValue(value, use_as_default)
NumSetValue(f, value, use_as_default, out) ==
    /\ pc = "running"
    /\ num' = [num EXCEPT ![f] = Num_setValue(num[f], value, use_as_default)]
    /\ Notify(Num_setValue_emits(num[f], value), Request(num', color, wire_style), out)
    /\ call' = Call("setValue", f, value, use_as_default)
    /\ declared' = IF use_as_default THEN [declared EXCEPT ![f] = value] ELSE declared
    /\ consumed' = FALSE
    /\ UNCHANGED <<pc, wire_style, color>>

\* NumParameter.resetToDefault()
NumResetToDefault(f, out) ==
    /\ pc = "running"
    /\ num' = [num EXCEPT ![f] = Num_resetToDefault(num[f])]
    /\ Notify(Num_setValue_emits(num[f], num[f].dvalue), Request(num', color, wire_style), out)
    /\ call' = Call("resetToDefault", f, 0, FALSE)
    /\ consumed' = FALSE
    /\ UNCHANGED <<pc, wire_style, color, declared>>

\* NumParameter.setRange(min_value, max_value)
NumSetRange(f, range, out) ==
    /\ pc = "running"
    /\ num' = [num EXCEPT ![f] = Num_setRange(num[f], range[1], range[2], TRUE)]
    /\ Notify(Num_setRange_emits(num[f], range[1], range[2]), Request(num', color, wire_style), out)
    /\ call' = Call("setRange", f, range, FALSE)
    /\ consumed' = FALSE
    /\ UNCHANGED <<pc, wire_style, color, declared>>

\* The user changes the spin box to another value of its range:
\* field.valueChanged -> _updateValueFromField
NumFieldEdit(f, value, out) ==
    /\ pc = "running"
    /\ value = Field_setValue(num[f], value)
    /\ value # num[f].field
    /\ num' = [num EXCEPT ![f] =
                  Num_updateValueFromField([num[f] EXCEPT !.field = value], value)]
    /\ Notify(Num_updateValueFromField_emits(num[f], value), Request(num', color, wire_style), out)
    /\ call' = Call("fieldEdit", f, value, FALSE)
    /\ consumed' = FALSE
    /\ UNCHANGED <<pc, wire_style, color, declared>>

\* The user moves the slider to another position of its range:
\* slider.valueChanged -> _updateValueFromSlider
NumSliderEdit(f, s, out) ==
    /\ pc = "running"
    /\ s \in num[f].smin .. num[f].smax
    /\ s # num[f].slider
    /\ num' = [num EXCEPT ![f] =
                  Num_updateValueFromSlider([num[f] EXCEPT !.slider = s], s)]
    /\ Notify(Num_updateValueFromSlider_emits(num[f], s), Request(num', color, wire_style), out)
    /\ call' = Call("sliderEdit", f, s, FALSE)
    /\ consumed' = FALSE
    /\ UNCHANGED <<pc, wire_style, color, declared>>

\* ColorParameter.setValue(value, use_as_default); also the slot of
\* color_dialog.currentColorChanged (value a QColor).
ColorSetValue(value, use_as_default, out) ==
    /\ pc = "running"
    /\ color' = Color_setValue(color, value, use_as_default)
    /\ Notify(Color_setValue_emits(color, value, TRUE), Request(num, color', wire_style), out)
    /\ call' = Call("setValue", "background_color_field", value, use_as_default)
    /\ declared' = IF use_as_default /\ QColor(value) # Invalid
                      THEN [declared EXCEPT !.background_color_field = QColor(value)]
                      ELSE declared
    /\ consumed' = FALSE
    /\ UNCHANGED <<pc, wire_style, num>>

\* ColorParameter.resetToDefault()
ColorResetToDefault(out) ==
    /\ pc = "running"
    /\ color' = Color_resetToDefault(color)
    /\ Notify(Color_setValue_emits(color, color.dvalue, TRUE), Request(num, color', wire_style), out)
    /\ call' = Call("resetToDefault", "background_color_field", 0, FALSE)
    /\ consumed' = FALSE
    /\ UNCHANGED <<pc, wire_style, num, declared>>

\* The user changes the text of the line edit:
\* field.textChanged -> valueChanged.emit
ColorFieldEdit(text, out) ==
    /\ pc = "running"
    /\ text # color.text
    /\ color' = [color EXCEPT !.text = text]
    /\ Notify(1, Request(num, color', wire_style), out)
    /\ call' = Call("fieldEdit", "background_color_field", text, FALSE)
    /\ consumed' = FALSE
    /\ UNCHANGED <<pc, wire_style, num, declared>>

\* NumParameter.setDefaultValue(value)
NumSetDefaultValue(f, value) ==
    /\ pc = "running"
    /\ num' = [num EXCEPT ![f] = Num_setDefaultValue(num[f], value)]
    /\ Notify(0, Request(num', color, wire_style), "ok")
    /\ call' = Call("setDefaultValue", f, value, FALSE)
    /\ consumed' = FALSE
    /\ UNCHANGED <<pc, wire_style, color, declared>>

\* ColorParameter.setDefaultValue(value)
ColorSetDefaultValue(value) ==
    /\ pc = "running"
    /\ color' = Color_setDefaultValue(color, value)
    /\ Notify(0, Request(num, color', wire_style), "ok")
    /\ call' = Call("setDefaultValue", "background_color_field", value, FALSE)
    /\ consumed' = FALSE
    /\ UNCHANGED <<pc, wire_style, num, declared>>

\* Qt delivers a mouse event to the child widget obj of the NumParameter f:
\* the event filter installed on obj, if any, sees it first.
NumMouseEvent(f, obj, event, out) ==
    /\ pc = "running"
    /\ LET r == IF obj \in Num_installEventFilter
                    THEN Num_eventFilter(obj, event) ELSE PassedOn
       IN  /\ num' = IF r.reset
                         THEN [num EXCEPT ![f] = Num_resetToDefault(num[f])]
                         ELSE num
           /\ Notify(IF r.reset THEN Num_setValue_emits(num[f], num[f].dvalue) ELSE 0,
                     Request(num', color, wire_style), out)
           /\ consumed' = r.consumed
    /\ call' = Call("mouseEvent", f, [obj |-> obj, event |-> event], FALSE)
    /\ UNCHANGED <<pc, wire_style, color, declared>>

\* Qt delivers a mouse event to the child widget obj of the ColorParameter.
ColorMouseEvent(obj, event, out) ==
    /\ pc = "running"
    /\ LET r == IF obj \in Color_installEventFilter
                    THEN Color_eventFilter(obj, event) ELSE PassedOn
       IN  /\ color' = IF r.reset THEN Color_resetToDefault(color) ELSE color
           /\ Notify(IF r.reset THEN Color_setValue_emits(color, color.dvalue, TRUE)
                               ELSE 0,
                     Request(num, color', wire_style), out)
           /\ consumed' = r.consumed
    /\ call' = Call("mouseEvent", "background_color_field",
                    [obj |-> obj, event |-> event], FALSE)
    /\ UNCHANGED <<pc, wire_style, num, declared>>

\* Variant of the combo box whose currentIndexChanged is not connected to
\* updateImage.
WireStyleChanged_unconnected(style, out) ==
    /\ pc = "running"
    /\ style # wire_style
    /\ wire_style' = style
    /\ Notify(0, Request(num, color, style), out)
    /\ call' = Call("currentIndexChanged", "wire_style_combo", style, FALSE)
    /\ consumed' = FALSE
    /\ UNCHANGED <<pc, num, color, declared>>

\* The user chooses another item of wire_style_combo:
\* currentIndexChanged -> updateImage
WireStyleChanged(style, out) ==
    /\ pc = "running"
    /\ style # wire_style
    /\ wire_style' = style
    /\ Notify(1, Request(num, color, style), out)
    /\ call' = Call("currentIndexChanged", "wire_style_combo", style, FALSE)
    /\ consumed' = FALSE
    /\ UNCHANGED <<pc, num, color, declared>>

\* ImageView.setImage(self.__image) as resizeEvent and the splitterMoved
\* lambda call it.  QPixmap(None) cannot happen after __init__ returned:
\* __image is set by then and never cleared.
Redisplay(size) ==
    /\ view' = [size |-> size, pixmap |-> Scaled(image, size)]
    /\ UNCHANGED <<svg_data, image, last_run>>
    /\ emitted' = 0
    /\ genCalled' = 0
    /\ written' = None
    /\ raised' = FALSE

\* Variant of resizeEvent that calls updateImage instead of showing the
\* cached image.
ResizeEvent_regenerates(size) ==
    /\ pc = "running"
    /\ \E out \in Outcomes :
         LET u == UpdateImage(svg_data, image, [view EXCEPT !.size = size],
                              Request(num, color, wire_style), out)
         IN  /\ SameAsLatest(Request(num, color, wire_style), out)
             /\ svg_data' = u.svg_data
             /\ image' = u.image
             /\ view' = u.view
             /\ raised' = u.raised
             /\ last_run' = out
    /\ emitted' = 0
    /\ genCalled' = 1
    /\ written' = None
    /\ call' = Call("resizeEvent", "", size, FALSE)
    /\ consumed' = FALSE
    /\ UNCHANGED <<pc, wire_style, num, color, declared>>

\* MainWindow.resizeEvent: the layout has given the view its new size.
ResizeEvent(size) ==
    /\ pc = "running"
    /\ Redisplay(size)
    /\ call' = Call("resizeEvent", "", size, FALSE)
    /\ consumed' = FALSE
    /\ UNCHANGED <<pc, wire_style, num, color, declared>>

\* main_splitter.splitterMoved
SplitterMoved(size) ==
    /\ pc = "running"
    /\ Redisplay(size)
    /\ call' = Call("splitterMoved", "", size, FALSE)
    /\ consumed' = FALSE
    /\ UNCHANGED <<pc, wire_style, num, color, declared>>

\* Variant of the export without the `if not self.__svg_data: return` guard.
Export_unguarded(svg, img, file_path) ==
    IF file_path = <<"", "">> THEN None
    ELSE IF EndsWith(file_path, ".svg") THEN [path |-> file_path, content |-> svg]
    ELSE IF EndsWith(file_path, ".png") \/ EndsWith(file_path, ".jpg")
            THEN [path |-> file_path, content |-> img]
    ELSE None

\* Variant of the export that saves the pixmap shown in the view instead of
\* the cached image.
Export_fromView(svg, img, file_path) ==
    IF svg = None THEN None
    ELSE IF file_path = <<"", "">> THEN None
    ELSE IF EndsWith(file_path, ".svg") THEN [path |-> file_path, content |-> svg]
    ELSE IF EndsWith(file_path, ".png") \/ EndsWith(file_path, ".jpg")
            THEN [path |-> file_path, content |-> view.pixmap]
    ELSE None

\* What showOutputDialog writes for the path the file dialog returned.
Export(svg, img, file_path) ==
    IF svg = None THEN None
    ELSE IF file_path = <<"", "">> THEN None
    ELSE IF EndsWith(file_path, ".svg") THEN [path |-> file_path, content |-> svg]
    ELSE IF EndsWith(file_path, ".png") \/ EndsWith(file_path, ".jpg")
            THEN [path |-> file_path, content |-> img]
    ELSE None

\* MainWindow.showOutputDialog; file_path is what the user would choose.
ShowOutputDialog(file_path) ==
    /\ pc = "running"
    /\ written' = Export(svg_data, image, file_path)
    /\ call' = Call("showOutputDialog", "", file_path, FALSE)
    /\ emitted' = 0
    /\ genCalled' = 0
    /\ raised' = FALSE
    /\ consumed' = FALSE
    /\ UNCHANGED <<pc, wire_style, num, color, svg_data, image, view, last_run, declared>>

(***************************************************************************)
(* The application as it runs: after MainWindow.__init__ only user events  *)
(* reach the widgets (edits, the reset gesture, the colour dialog, resize, *)
(* splitter, the Output button); nothing calls setRange or                 *)
(* setValue(..., use_as_default=True) on a constructed window.  The wire   *)
(* style stays the combo's first item here; SpecTrigger below changes it.  *)
(***************************************************************************)
SliderInputs(f) ==
    IF f = "width_field" THEN WidthInputs
    ELSE (ScaleMinHundredths - 1) .. (MaxScaleHundredths + 1)

\* The values the user of the model gives the scale: 0.28 and 0.29.
UserScaleHundredths == {ScaleMinHundredths, ScaleMinHundredths + 1}

UserFieldInputs(f) ==
    IF f = "width_field" THEN WidthInputs ELSE {h * 10 : h \in UserScaleHundredths}

UserSliderInputs(f) ==
    IF f = "width_field" THEN WidthInputs ELSE UserScaleHundredths

PickedColors == {QColorObj("#ff0000")}

Next ==
    \/ \E out \in Outcomes : Construct(out)
    \/ \E f \in NumFields, out \in Outcomes : NumResetToDefault(f, out)
    \/ \E f \in NumFields, out \in Outcomes :
         \E value \in UserFieldInputs(f) : NumFieldEdit(f, value, out)
    \/ \E f \in NumFields, out \in Outcomes :
         \E s \in UserSliderInputs(f) : NumSliderEdit(f, s, out)
    \/ \E value \in PickedColors, out \in Outcomes : ColorSetValue(value, FALSE, out)
    \/ \E out \in Outcomes : ColorResetToDefault(out)
    \/ \E text \in ColorTexts, out \in Outcomes : ColorFieldEdit(text, out)
    \/ \E size \in ViewSizes : ResizeEvent(size)
    \/ \E size \in ViewSizes : SplitterMoved(size)
    \/ \E file_path \in Paths : ShowOutputDialog(file_path)

Spec == Init /\ [][Next]_vars

(***************************************************************************)
(* The widgets as a library: every public method called with inputs inside *)
(* and outside its domain, and the user's edits, on the widgets of a       *)
(* window whose generator succeeds (the widgets read nothing of the        *)
(* pipeline).  SpecNum exercises the two NumParameters, SpecColor the      *)
(* ColorParameter.                                                         *)
(***************************************************************************)
NextNum ==
    \/ Construct("ok")
    \/ \E f \in NumFields : \E value \in NumInputs(f), d \in BOOLEAN :
         NumSetValue(f, value, d, "ok")
    \/ \E f \in NumFields : NumResetToDefault(f, "ok")
    \/ \E f \in NumFields : \E range \in NumRanges(f) : NumSetRange(f, range, "ok")
    \/ \E f \in NumFields : \E value \in NumInputs(f) : NumFieldEdit(f, value, "ok")
    \/ \E f \in NumFields : \E s \in SliderInputs(f) : NumSliderEdit(f, s, "ok")

SpecNum == Init /\ [][NextNum]_vars

NextColor ==
    \/ Construct("ok")
    \/ \E value \in ColorInputs, d \in BOOLEAN : ColorSetValue(value, d, "ok")
    \/ ColorResetToDefault("ok")
    \/ \E text \in ColorTexts : ColorFieldEdit(text, "ok")

SpecColor == Init /\ [][NextColor]_vars

(***************************************************************************)
(* The mouse events of the parameter widgets: every event of the model on  *)
(* every child widget of the three parameters, between edits that move the *)
(* values away from their defaults.                                        *)
(***************************************************************************)
NextMouse ==
    \/ Construct("ok")
    \/ \E f \in NumFields : \E value \in UserFieldInputs(f) : NumFieldEdit(f, value, "ok")
    \/ \E f \in NumFields : \E s \in UserSliderInputs(f) : NumSliderEdit(f, s, "ok")
    \/ \E text \in ColorTexts : ColorFieldEdit(text, "ok")
    \/ \E f \in NumFields, obj \in Num_widgets, event \in MouseEvents :
         NumMouseEvent(f, obj, event, "ok")
    \/ \E obj \in Color_widgets, event \in MouseEvents :
         ColorMouseEvent(obj, event, "ok")

SpecMouse == Init /\ [][NextMouse]_vars

(***************************************************************************)
(* The triggers of the pipeline: every user event that changes a value the *)
(* generator reads, with every outcome of the generator.  (Resize, the     *)
(* splitter and the export change no parameter and no cached artifact.)    *)
(***************************************************************************)
NextTrigger ==
    \/ \E out \in Outcomes : Construct(out)
    \/ \E f \in NumFields, out \in Outcomes : NumResetToDefault(f, out)
    \/ \E f \in NumFields, out \in Outcomes :
         \E value \in UserFieldInputs(f) : NumFieldEdit(f, value, out)
    \/ \E f \in NumFields, out \in Outcomes :
         \E s \in UserSliderInputs(f) : NumSliderEdit(f, s, out)
    \/ \E value \in PickedColors, out \in Outcomes : ColorSetValue(value, FALSE, out)
    \/ \E out \in Outcomes : ColorResetToDefault(out)
    \/ \E text \in ColorTexts, out \in Outcomes : ColorFieldEdit(text, out)
    \/ \E style \in WireStyles, out \in Outcomes : WireStyleChanged(style, out)

SpecTrigger == Init /\ [][NextTrigger]_vars

(***************************************************************************)
(* The default value of the widgets: setDefaultValue next to the methods   *)
(* and edits that write the current value without use_as_default, on the   *)
(* three parameter widgets of a window whose generator succeeds.           *)
(***************************************************************************)
NextDefault ==
    \/ Construct("ok")
    \/ \E f \in NumFields : \E value \in NumInputs(f) : NumSetDefaultValue(f, value)
    \/ \E f \in NumFields : \E value \in NumInputs(f) : NumSetValue(f, value, FALSE, "ok")
    \/ \E f \in NumFields : NumResetToDefault(f, "ok")
    \/ \E f \in NumFields : \E value \in UserFieldInputs(f) : NumFieldEdit(f, value, "ok")
    \/ \E f \in NumFields : \E s \in UserSliderInputs(f) : NumSliderEdit(f, s, "ok")
    \/ \E value \in ColorInputs : ColorSetDefaultValue(value)
    \/ \E value \in ColorInputs : ColorSetValue(value, FALSE, "ok")
    \/ ColorResetToDefault("ok")
    \/ \E text \in ColorTexts : ColorFieldEdit(text, "ok")

SpecDefault == Init /\ [][NextDefault]_vars

(***************************************************************************)
(* Properties                                                              *)
(***************************************************************************)

\* C1: every successful setValue on a parameter (NumParameter, or
\* ColorParameter with a colour that parses) delivers exactly one
\* valueChanged notification to the listeners.
C1_SetValueNotifiesOnce ==
    (/\ call.op = "setValue"
     /\ (call.target = "background_color_field" => QColor(call.arg) # Invalid))
    => emitted = 1

\* C2: after a generation run whose markup failed validation, the cached
\* markup and the cached raster image are both absent.
C2_FailedValidationClearsArtifact ==
    last_run = "malformed" => (svg_data = None /\ image = None)

\* C3: after a generation run in which the generator raised, the cached markup
\* of any earlier run is absent, and an export then writes nothing.
C3_GeneratorErrorDiscardsMarkup ==
    last_run = "raise" =>
        /\ svg_data = None
        /\ (call.op = "showOutputDialog" => written = None)

\* C4: after resetToDefault(), value() is exactly the last value passed to
\* setValue with use_as_default=True (for a colour: its normalized name), or
\* the construction-time value when there was no such call.
C4_ResetRestoresDeclaredDefault ==
    call.op = "resetToDefault" =>
        IF call.target \in NumFields
            THEN Num_value(num[call.target]) = declared[call.target]
            ELSE Color_value(color) = declared.background_color_field

\* C5: a resize or splitter move calls the generator zero times, leaves the
\* cached markup and the cached raster as they were, and shows the cached
\* raster scaled to the view's new size.
C5_ResizeOnlyRedisplays ==
    [][call'.op \in {"resizeEvent", "splitterMoved"} =>
          /\ genCalled' = 0
          /\ svg_data' = svg_data
          /\ image' = image
          /\ view'.pixmap = Scaled(image, view'.size)]_vars

C5_Witness ==
    /\ call.op = "resizeEvent"
    /\ last_run = "ok"
    /\ view.size = MaxViewSize
    /\ view.pixmap = Scaled(image, MaxViewSize)

\* C6: ColorParameter.setValue with a string that does not parse as a colour
\* leaves value() and defaultValue() unchanged and emits no valueChanged,
\* with use_as_default True or False.
C6_InvalidColorIsNoOp ==
    [][(/\ call'.op = "setValue"
        /\ call'.target = "background_color_field"
        /\ QColor(call'.arg) = Invalid) =>
          /\ Color_value(color') = Color_value(color)
          /\ Color_defaultValue(color') = Color_defaultValue(color)
          /\ emitted' = 0]_vars

C6_Witness ==
    /\ call.op = "setValue"
    /\ call.target = "background_color_field"
    /\ call.arg = Str("not-a-color")
    /\ call.use_as_default
    /\ emitted = 0
    /\ Color_value(color) = "#ff0000"
    /\ Color_defaultValue(color) = QColorObj("#ffffff")

\* C7: when the latest generation run ended with malformed markup (Failed),
\* or no run has happened (Idle), an export writes no file and raises no
\* error, whatever path was chosen.
C7_NoExportWithoutArtifact ==
    (call.op = "showOutputDialog" /\ last_run \in {"malformed", "none"})
    => (written = None /\ ~raised)

C7_Witness ==
    /\ call.op = "showOutputDialog"
    /\ last_run = "malformed"
    /\ call.arg = <<"out", ".png">>
    /\ image # None
    /\ written = None

\* C8: with cached markup present, an export to a .svg path writes exactly
\* the cached markup, an export to a .png/.jpg path writes the cached raster
\* (the raster of that markup, at the width it was generated at); the export
\* calls the generator zero times and leaves markup and raster as they were.
C8_ExportWritesCachedArtifact ==
    [][(call'.op = "showOutputDialog" /\ svg_data # None) =>
          /\ genCalled' = 0
          /\ svg_data' = svg_data
          /\ image' = image
          /\ (EndsWith(call'.arg, ".svg") =>
                written' = [path |-> call'.arg, content |-> svg_data])
          /\ (EndsWith(call'.arg, ".png") \/ EndsWith(call'.arg, ".jpg") =>
                /\ written' = [path |-> call'.arg, content |-> image]
                /\ image.markup = svg_data
                /\ image.width = svg_data.request.width)]_vars

C8_Witness ==
    /\ call.op = "showOutputDialog"
    /\ call.arg = <<"out", ".jpg">>
    /\ written = [path |-> <<"out", ".jpg">>, content |-> image]
    /\ view.size = MaxViewSize
    /\ Request(num, color, wire_style) # svg_data.request

\* C9: after NumParameter.setValue(v) with min <= v <= max (for the float
\* kind, v of at most two decimals), value() = v.
C9_SetValueInRangeIsRead ==
    (call.op = "setValue" /\ call.target \in NumFields) =>
        LET p == num[call.target]
            v == call.arg
        IN  (/\ p.fmin <= v
             /\ v <= p.fmax
             /\ (p.type = "float" => v % 10 = 0))
            => Num_value(p) = v

C9_Witness ==
    /\ call.op = "setValue"
    /\ call.target = "scale_field"
    /\ call.arg = 290
    /\ Num_value(num.scale_field) = 290
    /\ num.scale_field.slider = 28

\* C10: an edit through the slider to position s and an edit through the field
\* to the logical value s/scale both end with value() that logical value and
\* with field and slider showing the same logical value, and each emits
\* exactly one valueChanged.
C10_SliderAndFieldPathsAgree ==
    (call.op \in {"fieldEdit", "sliderEdit"} /\ call.target \in NumFields) =>
        LET p == num[call.target]
            logical == IF call.op = "sliderEdit"
                          THEN FromSlider(p, call.arg) ELSE call.arg
        IN  /\ Num_value(p) = logical
            /\ FromSlider(p, p.slider) = Num_value(p)
            /\ emitted = 1

\* C11: the event Ctrl + middle-button release, delivered to any child widget
\* of a parameter (spin box or slider of a NumParameter, line edit or swatch
\* button of a ColorParameter), runs resetToDefault() - value() is then what
\* setValue(defaultValue()) gives and listeners are notified - and is consumed
\* by the event filter, so the widget does not see it.
C11_ResetGestureOnEveryWidget ==
    (call.op = "mouseEvent" /\ call.arg.event = ResetGesture) =>
        /\ consumed
        /\ emitted >= 1
        /\ IF call.target \in NumFields
              THEN LET p == num[call.target]
                   IN  Num_value(p) = Field_setValue(p, Num_defaultValue(p))
              ELSE Color_value(color) = QColor(Color_defaultValue(color))

\* C12: after a generation run that failed (the generator raised, or its
\* markup failed validation) the application is running, the first run made
\* by the constructor included; and after a run that succeeded the markup and
\* the raster of the current parameters are cached and the raster is shown.
C12_NoFailureIsFatal ==
    /\ last_run \in {"malformed", "raise"} => pc = "running"
    /\ last_run = "ok" =>
          /\ pc = "running"
          /\ svg_data = Markup(Request(num, color, wire_style))
          /\ image = Render(Request(num, color, wire_style))
          /\ view.pixmap = Scaled(image, view.size)

\* C13: NumParameter.setRange(min, max) with min <= value() <= max leaves
\* value() as it was and emits no valueChanged.
C13_SetRangeKeepsContainedValue ==
    [][(/\ call'.op = "setRange"
        /\ call'.arg[1] <= Num_value(num[call'.target])
        /\ Num_value(num[call'.target]) <= call'.arg[2]) =>
          /\ Num_value(num'[call'.target]) = Num_value(num[call'.target])
          /\ emitted' = 0]_vars

\* C14: ColorParameter.value() is always a normalized colour string (a text
\* that parses as a colour and is that colour's name), and an edit of the line
\* edit to a text that does not parse notifies no listener.
C14_ColorValueAlwaysValid ==
    /\ NamedColor[Color_value(color)] = Color_value(color)
    /\ (/\ call.op = "fieldEdit"
        /\ call.target = "background_color_field"
        /\ NamedColor[call.arg] = Invalid) => emitted = 0

\* C15: NumParameter.setValue(v, use_as_default) with v below min or above max
\* leaves value() and defaultValue() as they were and emits no valueChanged.
C15_SetValueOutOfRangeIsNoOp ==
    [][(/\ call'.op = "setValue"
        /\ call'.target \in NumFields
        /\ (\/ call'.arg < num[call'.target].fmin
            \/ call'.arg > num[call'.target].fmax)) =>
          /\ Num_value(num'[call'.target]) = Num_value(num[call'.target])
          /\ Num_defaultValue(num'[call'.target]) = Num_defaultValue(num[call'.target])
          /\ emitted' = 0]_vars

\* C16: in every state every NumParameter has min <= value() <= max for its
\* current range, and its slider stands at value() times the scale (1 for
\* int, 100 for float).
C16_ValueInRangeAndSliderInStep ==
    \A f \in NumFields :
        LET p == num[f]
        IN  /\ p.fmin <= Num_value(p)
            /\ Num_value(p) <= p.fmax
            /\ p.slider = IF p.type = "float" THEN Num_value(p) \div 10
                                              ELSE Num_value(p)
            /\ (p.type = "float" => Num_value(p) % 10 = 0)

\* C17: setDefaultValue(v) on a NumParameter or a ColorParameter changes no
\* parameter's value() and emits no valueChanged; setValue(v) without
\* use_as_default, an edit of a field and an edit of a slider change no
\* parameter's defaultValue().
C17_DefaultAndValueIndependent ==
    [][/\ call'.op = "setDefaultValue" =>
             /\ \A f \in NumFields : Num_value(num'[f]) = Num_value(num[f])
             /\ Color_value(color') = Color_value(color)
             /\ emitted' = 0
       /\ (\/ call'.op \in {"fieldEdit", "sliderEdit"}
           \/ (call'.op = "setValue" /\ ~call'.use_as_default)) =>
             /\ \A f \in NumFields :
                   Num_defaultValue(num'[f]) = Num_defaultValue(num[f])
             /\ Color_defaultValue(color') = Color_defaultValue(color)]_vars

C17_Witness ==
    /\ call.op = "setDefaultValue"
    /\ call.target = "scale_field"
    /\ Num_defaultValue(num.scale_field) = (MaxScaleHundredths + 1) * 10
    /\ Num_value(num.scale_field) = (ScaleMinHundredths + 1) * 10
    /\ Color_defaultValue(color) = Str("#ff0000")
    /\ Color_value(color) = "not-a-color"
    /\ emitted = 0

\* C18: every step that changes a value the generator reads (a numeric
\* parameter, a colour parameter, the wire style) runs the generator, and
\* after a run that succeeded the cached markup and the cached raster are
\* those of the current values of all parameters, the raster at the current
\* width.
C18_EveryChangeRegenerates ==
    [][/\ Request(num', color', wire_style') # Request(num, color, wire_style)
             => genCalled' >= 1
       /\ (pc' = "running" /\ last_run' = "ok") =>
             /\ svg_data' = Markup(Request(num', color', wire_style'))
             /\ image' = Render(Request(num', color', wire_style'))
             /\ image'.width = Num_value(num'.width_field)]_vars

C18_Witness ==
    /\ call.op = "currentIndexChanged"
    /\ last_run = "ok"
    /\ wire_style = "straight"
    /\ svg_data.request.wirestyle = "straight"
    /\ svg_data.request.background = "red"
    /\ image.width = MaxWidth
    /\ Num_value(num.width_field) = MaxWidth

\* C19: every step that changes the value() of a NumParameter - a setRange
\* that bounds the value into the new range included - emits valueChanged,
\* and the listening pipeline runs the generator.
C19_EveryValueChangeNotifies ==
    [][(\E f \in NumFields : Num_value(num'[f]) # Num_value(num[f])) =>
          /\ emitted' >= 1
          /\ genCalled' >= 1]_vars

\* C20: an export with cached markup present and a non-empty path writes a
\* file, the cached markup or the cached raster, whatever the path's
\* extension.
C20_ExportAlwaysWrites ==
    (/\ call.op = "showOutputDialog"
     /\ svg_data # None
     /\ call.arg # <<"", "">>) =>
        /\ written # None
        /\ written.content \in {svg_data, image}

====
